---- MODULE Spec2Model ----
(***************************************************************************)
(* Model of the Foundation bindings of src/src/lib.rs: typed wrappers      *)
(* around native object handles, the string and enumeration marshalling    *)
(* helpers, and the exported search-path constants.                        *)
(*                                                                         *)
(* The native object runtime is the environment.  Where a claim needs its  *)
(* behaviour, the runtime is modelled by the documented contract of the    *)
(* selector that the binding names (lib.rs declares it, the platform       *)
(* implements it); where a claim quantifies over whatever the runtime      *)
(* answers, the answer is drawn from a small set.                          *)
(***************************************************************************)
EXTENDS Integers, Sequences, FiniteSets

VARIABLES
    val,        \* the Rust &str handed to from_str: a sequence of code points
    heap,       \* native objects, by handle: handle h > 0 is heap[h]
    held,       \* the handle inside the wrapper the caller holds
    op,         \* the public operation that completed last
    calls,      \* the native messages that operation sent, in order
    ret,        \* what it returned
    outcome,    \* "ok", or "abort" when it panicked
    store,      \* the standard user defaults: key -> value
    wrappers,   \* how many Rust wrapper values hold `held`
    transform,  \* the closure handed to NSArray::map
    queues,     \* the runtime's operation queues: queue handle -> blocks waiting
    ran,        \* the blocks each queue has run, in order
    submitted,  \* the blocks each caller handed over, in order
    domains,    \* the search-path domains a caller asks for
    answer      \* the URLs the file manager is about to answer with

lastOp == <<op, calls, ret, outcome>>
strVars == <<val, heap, held>>
otherVars == <<store, wrappers, transform, queues, ran, submitted, domains, answer>>
vars == <<val, heap, held, op, calls, ret, outcome, store, wrappers, transform,
          queues, ran, submitted, domains, answer>>

(***************************************************************************)
(* Bounds.                                                                 *)
(***************************************************************************)
MaxLen == 3
MaxCount == 3
MaxHeap == 3
MaxWrappers == 2
MaxQueue == 2

(***************************************************************************)
(* Handles.  `id` is a raw pointer; null_mut() is the null handle.         *)
(***************************************************************************)
Nil == 0

(***************************************************************************)
(* Exported constants, lib.rs 580-612.                                     *)
(***************************************************************************)
NSSearchPathDirectory_NSApplicationDirectory == 1
NSSearchPathDirectory_NSDemoApplicationDirectory == 2
NSSearchPathDirectory_NSDeveloperApplicationDirectory == 3
NSSearchPathDirectory_NSAdminApplicationDirectory == 4
NSSearchPathDirectory_NSLibraryDirectory == 5
NSSearchPathDirectory_NSDeveloperDirectory == 6
NSSearchPathDirectory_NSUserDirectory == 7
NSSearchPathDirectory_NSDocumentationDirectory == 8
NSSearchPathDirectory_NSDocumentDirectory == 9
NSSearchPathDirectory_NSCoreServiceDirectory == 10
NSSearchPathDirectory_NSAutosavedInformationDirectory == 11
NSSearchPathDirectory_NSDesktopDirectory == 12
NSSearchPathDirectory_NSCachesDirectory == 13
NSSearchPathDirectory_NSApplicationSupportDirectory == 14
NSSearchPathDirectory_NSDownloadsDirectory == 15
NSSearchPathDirectory_NSInputMethodsDirectory == 16
NSSearchPathDirectory_NSMoviesDirectory == 17
NSSearchPathDirectory_NSMusicDirectory == 18
NSSearchPathDirectory_NSPicturesDirectory == 19
NSSearchPathDirectory_NSPrinterDescriptionDirectory == 20
NSSearchPathDirectory_NSSharedPublicDirectory == 21
NSSearchPathDirectory_NSPreferencePanesDirectory == 22
NSSearchPathDirectory_NSApplicationScriptsDirectory == 23
NSSearchPathDirectory_NSItemReplacementDirectory == 99
NSSearchPathDirectory_NSAllApplicationsDirectory == 100
NSSearchPathDirectory_NSAllLibrariesDirectory == 101
NSSearchPathDirectory_NSTrashDirectory == 102

NSSearchPathDomainMask_NSUserDomainMask == 1
NSLocalDomainMask_Typo == 2 + 1
NSSearchPathDomainMask_NSLocalDomainMask == 2
NSSearchPathDomainMask_NSNetworkDomainMask == 4
NSSearchPathDomainMask_NSSystemDomainMask == 8
NSSearchPathDomainMask_NSAllDomainsMask == 65535

\* The NSString encoding from_str and to_str pass: 4 is NSUTF8StringEncoding.
NSUTF8StringEncoding == 4

(***************************************************************************)
(* Rust strings.  A &str is a sequence of Unicode scalar values stored as  *)
(* UTF-8; as_ptr()/len() expose the bytes and the byte length.             *)
(***************************************************************************)
\* one-, two-, three- and four-byte characters, and NUL
CodePoints == {0, 65, 233, 8364, 128512}

RECURSIVE SeqsUpTo(_, _)
SeqsUpTo(S, n) ==
    IF n = 0 THEN {<<>>}
    ELSE LET shorter == SeqsUpTo(S, n - 1)
         IN  shorter \cup {Append(s, x) : s \in shorter, x \in S}

Strs == SeqsUpTo(CodePoints, MaxLen)

EncodeChar(cp) ==
    IF cp < 128 THEN <<cp>>
    ELSE IF cp < 2048 THEN <<192 + (cp \div 64), 128 + (cp % 64)>>
    ELSE IF cp < 65536 THEN
        <<224 + (cp \div 4096), 128 + ((cp \div 64) % 64), 128 + (cp % 64)>>
    ELSE <<240 + (cp \div 262144), 128 + ((cp \div 4096) % 64),
           128 + ((cp \div 64) % 64), 128 + (cp % 64)>>

RECURSIVE Utf8Encode(_)
Utf8Encode(s) ==
    IF s = <<>> THEN <<>> ELSE EncodeChar(Head(s)) \o Utf8Encode(Tail(s))

\* str::as_ptr(): the string's bytes, with nothing after them
as_bytes(s) == Utf8Encode(s)

\* the length in characters, which is what len() is not
len_in_chars(s) == Len(s)

\* str::len(): the length in bytes
len(s) == Len(as_bytes(s))

(***************************************************************************)
(* UTF-8 validation and decoding, as std::str::from_utf8 and the runtime's *)
(* NSUTF8StringEncoding decoder do it: shortest form only, no surrogates,  *)
(* nothing above U+10FFFF.  Malformed is the result for a malformed input. *)
(***************************************************************************)
Malformed == <<-1>>

IsCont(b) == b >= 128 /\ b <= 191

SeqLen(b0) ==
    IF b0 < 128 THEN 1
    ELSE IF b0 >= 194 /\ b0 <= 223 THEN 2
    ELSE IF b0 >= 224 /\ b0 <= 239 THEN 3
    ELSE IF b0 >= 240 /\ b0 <= 244 THEN 4
    ELSE 0

DecodeChar(b, n) ==
    IF n = 1 THEN b[1]
    ELSE IF n = 2 THEN (b[1] - 192) * 64 + (b[2] - 128)
    ELSE IF n = 3 THEN (b[1] - 224) * 4096 + (b[2] - 128) * 64 + (b[3] - 128)
    ELSE (b[1] - 240) * 262144 + (b[2] - 128) * 4096 + (b[3] - 128) * 64
         + (b[4] - 128)

ScalarOk(cp, n) ==
    /\ n = 3 => cp >= 2048 /\ ~(cp >= 55296 /\ cp <= 57343)
    /\ n = 4 => cp >= 65536 /\ cp <= 1114111

RECURSIVE Utf8Decode(_)
Utf8Decode(b) ==
    IF b = <<>> THEN <<>>
    ELSE LET n == SeqLen(b[1])
         IN  IF n = 0 \/ Len(b) < n THEN Malformed
             ELSE IF \E i \in 2..n : ~IsCont(b[i]) THEN Malformed
             ELSE LET cp   == DecodeChar(b, n)
                      rest == Utf8Decode(SubSeq(b, n + 1, Len(b)))
                  IN  IF ~ScalarOk(cp, n) \/ rest = Malformed THEN Malformed
                      ELSE <<cp>> \o rest

from_utf8_is_ok(b) == Utf8Decode(b) # Malformed

(***************************************************************************)
(* The runtime's strings are sequences of UTF-16 code units.               *)
(***************************************************************************)
Utf16Units(cp) ==
    IF cp < 65536 THEN <<cp>>
    ELSE <<55296 + ((cp - 65536) \div 1024), 56320 + ((cp - 65536) % 1024)>>

RECURSIVE ToUtf16(_)
ToUtf16(s) ==
    IF s = <<>> THEN <<>> ELSE Utf16Units(Head(s)) \o ToUtf16(Tail(s))

IsHigh(u) == u >= 55296 /\ u <= 56319
IsLow(u) == u >= 56320 /\ u <= 57343

RECURSIVE FromUtf16(_)
FromUtf16(u) ==
    IF u = <<>> THEN <<>>
    ELSE IF IsHigh(u[1]) THEN
        IF Len(u) < 2 \/ ~IsLow(u[2]) THEN Malformed
        ELSE LET rest == FromUtf16(SubSeq(u, 3, Len(u)))
             IN  IF rest = Malformed THEN Malformed
                 ELSE <<65536 + (u[1] - 55296) * 1024 + (u[2] - 56320)>> \o rest
    ELSE IF IsLow(u[1]) THEN Malformed
    ELSE LET rest == FromUtf16(Tail(u))
         IN  IF rest = Malformed THEN Malformed ELSE <<u[1]>> \o rest

(***************************************************************************)
(* Native objects.  heap[h] is the object behind handle h: its class, its  *)
(* reference count, who allocated it ("code": an alloc message sent by     *)
(* this library; "runtime": the runtime itself) and its contents (UTF-16   *)
(* units for a string, element handles for an array).                      *)
(***************************************************************************)
Obj(cls, by, data) == [cls |-> cls, rc |-> 1, by |-> by, data |-> data]

\* A message sent to the runtime and the runtime's answer.  cls names the class
\* for a class message; recv is the receiver of an instance message.  The
\* answer is a word: a handle, an integer or a pointer; buf is the memory an
\* answered pointer points to.
MsgBuf(sel, cls, recv, args, ans, buf) ==
    [sel |-> sel, cls |-> cls, recv |-> recv, args |-> args, ans |-> ans,
     buf |-> buf]

Msg(sel, cls, recv, args, ans) == MsgBuf(sel, cls, recv, args, ans, <<>>)

Sels(cs) == [i \in 1..Len(cs) |-> cs[i].sel]

\* the address of the buffer UTF8String answers with for the string h
BufferOf(h) == 5000 + h

\* A return value: a word (a handle, an integer, a pointer), a string or Vec
\* (its bytes or elements), a boolean, or nothing.
Word(w) == [kind |-> "word", h |-> w, s |-> <<>>, b |-> FALSE]
Str(bytes) == [kind |-> "str", h |-> 0, s |-> bytes, b |-> FALSE]
Vec(v) == [kind |-> "vec", h |-> 0, s |-> v, b |-> FALSE]
Bool(b) == [kind |-> "bool", h |-> 0, s |-> <<>>, b |-> b]
Unit == [kind |-> "unit", h |-> 0, s |-> <<>>, b |-> FALSE]

\* What an operation hands back: the heap after it, the messages it sent, its
\* return value and whether it returned ("ok") or panicked ("abort").
Returns(hp, cs, r) == [heap |-> hp, calls |-> cs, ret |-> r, outcome |-> "ok"]
Done(hp, cs, w) == Returns(hp, cs, Word(w))
Abort(hp, cs) == [heap |-> hp, calls |-> cs, ret |-> Unit, outcome |-> "abort"]

(***************************************************************************)
(* The runtime's side of the NSString selectors lib.rs 66-75 bind.         *)
(***************************************************************************)
\* +alloc: a fresh object of the class, owned by the sender
Native_alloc(hp, cls) == Append(hp, Obj(cls, "code", <<>>))

\* -initWithBytes:length:encoding: reads `length` bytes of the buffer and
\* decodes them; nil when they are not valid in the encoding.  Encoding 1 is
\* NSASCIIStringEncoding, strict 7-bit.
Native_decode(bytes, encoding) ==
    IF encoding = NSUTF8StringEncoding THEN Utf8Decode(bytes)
    ELSE IF \A i \in 1..Len(bytes) : bytes[i] < 128 THEN bytes
    ELSE Malformed

Native_initWithBytes(hp, recv, buffer, length, encoding) ==
    LET cps == Native_decode(SubSeq(buffer, 1, length), encoding)
    IN  IF recv = Nil \/ cps = Malformed
        THEN [heap |-> hp, ans |-> Nil]
        ELSE [heap |-> [hp EXCEPT ![recv].data = ToUtf16(cps)], ans |-> recv]

\* -UTF8String: a pointer to the string as a NUL-terminated UTF-8 buffer; NULL
\* when the string cannot be converted, and for a message to nil.
Native_UTF8String(hp, recv) ==
    IF recv = Nil THEN [ptr |-> Nil, buf |-> <<>>]
    ELSE LET cps == FromUtf16(hp[recv].data)
         IN  IF cps = Malformed THEN [ptr |-> Nil, buf |-> <<>>]
             ELSE [ptr |-> BufferOf(recv), buf |-> Utf8Encode(cps) \o <<0>>]

\* -lengthOfBytesUsingEncoding: the bytes the string takes in the encoding,
\* without a terminator; 0 when it cannot be converted, and for nil.
Native_lengthOfBytes(hp, recv, encoding) ==
    IF recv = Nil THEN 0
    ELSE LET cps == FromUtf16(hp[recv].data)
         IN  IF cps = Malformed THEN 0
             ELSE IF encoding = NSUTF8StringEncoding THEN Len(Utf8Encode(cps))
             ELSE IF \A i \in 1..Len(cps) : cps[i] < 128 THEN Len(cps)
             ELSE 0

(***************************************************************************)
(* NSString::alloc, from_str, to_str, to_string: lib.rs 29-64.             *)
(***************************************************************************)
NSString_alloc(hp) ==
    LET hp1 == Native_alloc(hp, "NSString")
    IN  Done(hp1, <<Msg("alloc", "NSString", Nil, <<>>, Len(hp1))>>, Len(hp1))

from_str(hp, s) ==
    LET alloc == NSString_alloc(hp)
        init  == Native_initWithBytes(alloc.heap, alloc.ret.h, as_bytes(s),
                                      len(s), 4)
    IN  Done(init.heap,
             alloc.calls \o <<Msg("initWithBytes:length:encoding:", "",
                                  alloc.ret.h, <<len(s), 4>>, init.ans)>>,
             init.ans)

\* to_str has the runtime's buffer and length only; what it does with them is
\* here, as the list of the results a build can produce.
\* slice::from_raw_parts on a null pointer is undefined behaviour: a build
\* with the standard library's precondition checks aborts, a build without
\* them makes the empty slice.
to_str_outcomes(hp, cs, bytes, n) ==
    IF bytes.ptr = Nil THEN
        <<Abort(hp, cs)>>
            \o (IF n = 0 THEN <<Returns(hp, cs, Str(<<>>))>> ELSE <<>>)
    ELSE LET slice == SubSeq(bytes.buf, 1, n)
         IN  IF from_utf8_is_ok(slice) THEN <<Returns(hp, cs, Str(slice))>>
             ELSE <<Abort(hp, cs)>>

\* to_str, in an operation that has sent the messages `before` already
to_str_after(hp, h, before) ==
    LET bytes == Native_UTF8String(hp, h)
        n     == Native_lengthOfBytes(hp, h, 4)
    IN  to_str_outcomes(hp,
            before \o <<MsgBuf("UTF8String", "", h, <<>>, bytes.ptr, bytes.buf),
                        Msg("lengthOfBytesUsingEncoding:", "", h, <<4>>, n)>>,
            bytes, n)

to_str(hp, h) == to_str_after(hp, h, <<>>)

\* to_string is to_str and a copy of the bytes into an owned String
to_string_after(hp, h, before) == to_str_after(hp, h, before)

to_string(hp, h) == to_string_after(hp, h, <<>>)

(***************************************************************************)
(* Recording a completed operation.                                        *)
(***************************************************************************)
Record(name, r) ==
    /\ op' = name
    /\ heap' = r.heap
    /\ calls' = r.calls
    /\ ret' = r.ret
    /\ outcome' = r.outcome

NoOp ==
    /\ op = "none"
    /\ calls = <<>>
    /\ ret = Unit
    /\ outcome = "none"

Idle ==
    /\ store = <<>>
    /\ wrappers = 0
    /\ transform = "none"
    /\ queues = <<>>
    /\ ran = <<>>
    /\ submitted = <<>>
    /\ domains = {}
    /\ answer = <<>>

(***************************************************************************)
(* String marshalling: a caller builds a native string from a &str and     *)
(* reads it back.                                                          *)
(***************************************************************************)
InitStr ==
    /\ val \in Strs
    /\ heap = <<>>
    /\ held = Nil
    /\ NoOp
    /\ Idle

FromStr ==
    /\ op = "none"
    /\ LET r == from_str(heap, val)
       IN  Record("from_str", r) /\ held' = r.ret.h
    /\ UNCHANGED <<val, otherVars>>

ToStr ==
    /\ op # "none"
    /\ \E i \in DOMAIN to_str(heap, held) :
          Record("to_str", to_str(heap, held)[i])
    /\ UNCHANGED <<val, held, otherVars>>

ToString ==
    /\ op # "none"
    /\ \E i \in DOMAIN to_string(heap, held) :
          Record("to_string", to_string(heap, held)[i])
    /\ UNCHANGED <<val, held, otherVars>>

NextStr == FromStr \/ ToStr \/ ToString

SpecStr == InitStr /\ [][NextStr]_vars

\* C1: a string built by from_str from the bytes of s reads back through
\* to_str / to_string as exactly the bytes of s; from_str passes s's byte
\* length and encoding 4, and to_str reads exactly as many bytes of the
\* UTF8String buffer as lengthOfBytesUsingEncoding:(4) answers.
RoundTrip ==
    /\ op = "from_str" =>
          /\ Sels(calls) = <<"alloc", "initWithBytes:length:encoding:">>
          /\ calls[2].args = <<Len(as_bytes(val)), 4>>
          /\ held # Nil
    /\ op \in {"to_str", "to_string"} =>
          /\ outcome = "ok"
          /\ ret = Str(as_bytes(val))
          /\ Sels(calls) = <<"UTF8String", "lengthOfBytesUsingEncoding:">>
          /\ calls[2].args = <<4>>
          /\ Len(ret.s) = calls[2].ans
          /\ ret.s = SubSeq(calls[1].buf, 1, calls[2].ans)

\* a string whose byte length differs from its character count, holding a
\* four-byte character, has made the round trip
RoundTripWitness ==
    /\ op = "to_string"
    /\ outcome = "ok"
    /\ Len(val) = MaxLen
    /\ Len(ret.s) > Len(val)
    /\ \E i \in 1..Len(val) : val[i] > 65535

(***************************************************************************)
(* The search-path constants in use: a caller names a directory and a set  *)
(* of domains, and hands their mask to urls_for_directory_in_domains.      *)
(***************************************************************************)
Directories ==
    { NSSearchPathDirectory_NSApplicationDirectory,
      NSSearchPathDirectory_NSDemoApplicationDirectory,
      NSSearchPathDirectory_NSDeveloperApplicationDirectory,
      NSSearchPathDirectory_NSAdminApplicationDirectory,
      NSSearchPathDirectory_NSLibraryDirectory,
      NSSearchPathDirectory_NSDeveloperDirectory,
      NSSearchPathDirectory_NSUserDirectory,
      NSSearchPathDirectory_NSDocumentationDirectory,
      NSSearchPathDirectory_NSDocumentDirectory,
      NSSearchPathDirectory_NSCoreServiceDirectory,
      NSSearchPathDirectory_NSAutosavedInformationDirectory,
      NSSearchPathDirectory_NSDesktopDirectory,
      NSSearchPathDirectory_NSCachesDirectory,
      NSSearchPathDirectory_NSApplicationSupportDirectory,
      NSSearchPathDirectory_NSDownloadsDirectory,
      NSSearchPathDirectory_NSInputMethodsDirectory,
      NSSearchPathDirectory_NSMoviesDirectory,
      NSSearchPathDirectory_NSMusicDirectory,
      NSSearchPathDirectory_NSPicturesDirectory,
      NSSearchPathDirectory_NSPrinterDescriptionDirectory,
      NSSearchPathDirectory_NSSharedPublicDirectory,
      NSSearchPathDirectory_NSPreferencePanesDirectory,
      NSSearchPathDirectory_NSApplicationScriptsDirectory,
      NSSearchPathDirectory_NSItemReplacementDirectory,
      NSSearchPathDirectory_NSAllApplicationsDirectory,
      NSSearchPathDirectory_NSAllLibrariesDirectory,
      NSSearchPathDirectory_NSTrashDirectory }

\* the single-domain masks, by name
DomainMask(d) ==
    CASE d = "User" -> NSSearchPathDomainMask_NSUserDomainMask
      [] d = "Local" -> NSSearchPathDomainMask_NSLocalDomainMask
      [] d = "Network" -> NSSearchPathDomainMask_NSNetworkDomainMask
      [] d = "System" -> NSSearchPathDomainMask_NSSystemDomainMask

DomainNames == {"User", "Local", "Network", "System"}

\* & and | on NSUInteger
RECURSIVE BitAnd(_, _)
BitAnd(a, b) ==
    IF a = 0 \/ b = 0 THEN 0
    ELSE (a % 2) * (b % 2) + 2 * BitAnd(a \div 2, b \div 2)

RECURSIVE BitOr(_, _)
BitOr(a, b) ==
    IF a = 0 THEN b
    ELSE IF b = 0 THEN a
    ELSE (IF a % 2 = 1 \/ b % 2 = 1 THEN 1 ELSE 0) + 2 * BitOr(a \div 2, b \div 2)

RECURSIVE MaskOf(_)
MaskOf(S) ==
    IF S = {} THEN 0
    ELSE LET d == CHOOSE x \in S : TRUE
         IN  BitOr(DomainMask(d), MaskOf(S \ {d}))

\* a binding that sends the message again when the answer is nil
Forward_retrying(hp, sel, cls, recv, args, ans) ==
    IF ans = Nil
    THEN Done(hp, <<Msg(sel, cls, recv, args, ans), Msg(sel, cls, recv, args, ans)>>,
              ans)
    ELSE Done(hp, <<Msg(sel, cls, recv, args, ans)>>, ans)

\* A bound method of lib.rs (#[selector_export]) is one message to the runtime,
\* whose answer is the method's return value.
Forward(hp, sel, cls, recv, args, ans) ==
    Done(hp, <<Msg(sel, cls, recv, args, ans)>>, ans)

urls_for_directory_in_domains(hp, fm, directory, domain_mask, ans) ==
    Forward(hp, "URLsForDirectory:inDomains:", "", fm, <<directory, domain_mask>>,
            ans)

\* the handle of +defaultManager, an object of the runtime's
FileManager == 900

InitConst ==
    /\ val = <<>>
    /\ heap = <<>>
    /\ held = FileManager
    /\ NoOp
    /\ Idle

\* the answer plays no part here: the runtime answers with no array at all
UrlsForDirectoryInDomains ==
    /\ \E d \in Directories, S \in SUBSET DomainNames :
          /\ domains' = S
          /\ Record("urls_for_directory_in_domains",
                    urls_for_directory_in_domains(heap, held, d, MaskOf(S), Nil))
    /\ UNCHANGED <<val, held, store, wrappers, transform, queues, ran, submitted,
                   answer>>

\* the same with every domain at once
UrlsForDirectoryInAllDomains ==
    /\ \E d \in Directories :
          /\ domains' = DomainNames
          /\ Record("urls_for_directory_in_domains",
                    urls_for_directory_in_domains(heap, held, d,
                        NSSearchPathDomainMask_NSAllDomainsMask, Nil))
    /\ UNCHANGED <<val, held, store, wrappers, transform, queues, ran, submitted,
                   answer>>

NextConst == UrlsForDirectoryInDomains \/ UrlsForDirectoryInAllDomains

SpecConst == InitConst /\ [][NextConst]_vars

\* C10: the 27 directory constants are pairwise distinct; the four
\* single-domain masks are distinct powers of two, so two different ones AND to
\* 0 and the set of domains asked for is recoverable from the mask passed;
\* NSAllDomainsMask contains each of them and fits in 16 bits.
ConstantsWellFormed ==
    /\ Cardinality(Directories) = 27
    /\ {DomainMask(d) : d \in DomainNames} = {1, 2, 4, 8}
    /\ \A d, e \in DomainNames :
          d # e => BitAnd(DomainMask(d), DomainMask(e)) = 0
    /\ \A d \in DomainNames :
          BitAnd(DomainMask(d), NSSearchPathDomainMask_NSAllDomainsMask)
              = DomainMask(d)
    /\ NSSearchPathDomainMask_NSAllDomainsMask < 65536
    /\ op = "urls_for_directory_in_domains" =>
          {d \in DomainNames : BitAnd(calls[1].args[2], DomainMask(d)) # 0}
              = domains

\* a mask of two domains was passed for the last directory constant
ConstantsWitness ==
    /\ op = "urls_for_directory_in_domains"
    /\ calls[1].args[1] = NSSearchPathDirectory_NSTrashDirectory
    /\ domains = {"Local", "System"}
    /\ calls[1].args[2] = 10

(***************************************************************************)
(* Arrays: lib.rs 153-193.                                                 *)
(***************************************************************************)
\* +arrayWithObjects:count: an array of the first `count` ids of the buffer
Native_arrayWithObjects(hp, objects, count) ==
    Append(hp, Obj("NSArray", "runtime", SubSeq(objects, 1, count)))

\* -count; 0 for a message to nil
Native_count(hp, a) == IF a = Nil THEN 0 ELSE Len(hp[a].data)

\* -objectAtIndex: raises NSRangeException beyond the end
RangeException == -1

Native_objectAtIndex(hp, a, index) ==
    IF a = Nil THEN Nil
    ELSE IF index < Len(hp[a].data) THEN hp[a].data[index + 1]
    ELSE RangeException

from_slice(hp, slice) ==
    LET hp1 == Native_arrayWithObjects(hp, slice, Len(slice))
    IN  Forward(hp1, "arrayWithObjects:count:", "NSArray", Nil, <<Len(slice)>>,
                Len(hp1))

\* The closures handed to map: |val| NSURL(val) wraps the id unchanged; the
\* others stand for closures that compute something else from it.
Transforms == {"wrap", "tag", "ignore"}

Apply(f, item) ==
    CASE f = "wrap" -> item
      [] f = "tag" -> 2 * item + 1
      [] f = "ignore" -> 0

\* the end of the range (0..count), which it excludes
range_end_inclusive(count) == count + 1
range_end(count) == count

\* the iterator of map from `index` on: one objectAtIndex: and one call of
\* the closure per index, collected in order.  An exception of the runtime's
\* ends the process.
RECURSIVE map_from(_, _, _, _, _, _, _)
map_from(hp, a, f, index, end, cs, vec) ==
    IF index >= end THEN Returns(hp, cs, Vec(vec))
    ELSE LET item == Native_objectAtIndex(hp, a, index)
             cs1  == Append(cs, Msg("objectAtIndex:", "", a, <<index>>, item))
         IN  IF item = RangeException THEN Abort(hp, cs1)
             ELSE map_from(hp, a, f, index + 1, end, cs1,
                           Append(vec, Apply(f, item)))

map(hp, a, f) ==
    LET count == Native_count(hp, a)
    IN  map_from(hp, a, f, 0, range_end(count),
                 <<Msg("count", "", a, <<>>, count)>>, <<>>)

\* ids the caller holds to put into arrays
Items == {101, 102, 103}

InitMap ==
    /\ val = <<>>
    /\ heap = <<>>
    /\ held = Nil
    /\ NoOp
    /\ Idle

FromSlice ==
    /\ op = "none"
    /\ \E slice \in SeqsUpTo(Items, MaxCount) :
          LET r == from_slice(heap, slice)
          IN  Record("from_slice", r) /\ held' = r.ret.h
    /\ UNCHANGED <<val, otherVars>>

Map ==
    /\ held # Nil
    /\ \E f \in Transforms :
          /\ transform' = f
          /\ Record("map", map(heap, held, f))
    /\ UNCHANGED <<val, held, store, wrappers, queues, ran, submitted, domains,
                   answer>>

NextMap == FromSlice \/ Map

SpecMap == InitMap /\ [][NextMap]_vars

\* C2: map returns exactly count elements, the i-th being the closure's value
\* on the array's i-th object; it asks count once, then objectAtIndex: once per
\* index in increasing order and never for an index >= count, and sends no
\* objectAtIndex: at all for an empty array.
MapPreserves ==
    op = "map" =>
        LET items == heap[held].data
            n     == Len(items)
        IN  /\ outcome = "ok"
            /\ ret.kind = "vec"
            /\ Len(ret.s) = n
            /\ \A i \in 1..n : ret.s[i] = Apply(transform, items[i])
            /\ Len(calls) = n + 1
            /\ calls[1].sel = "count" /\ calls[1].ans = n
            /\ \A i \in 1..n :
                  /\ calls[i + 1].sel = "objectAtIndex:"
                  /\ calls[i + 1].recv = held
                  /\ calls[i + 1].args = <<i - 1>>
                  /\ calls[i + 1].args[1] < n
            /\ n = 0 => ret.s = <<>> /\ Sels(calls) = <<"count">>

\* an array of MaxCount objects, not all the same, was mapped
MapWitness ==
    /\ op = "map"
    /\ transform = "tag"
    /\ Len(ret.s) = MaxCount
    /\ ret.s[1] # ret.s[MaxCount]

(***************************************************************************)
(* User defaults: lib.rs 410-439, and the wrapper values of lib.rs 19-21.  *)
(* The store is a map from key to value; a key is an NSString, compared by *)
(* its contents.                                                           *)
(***************************************************************************)
\* the handle of +standardUserDefaults, an object of the runtime's
StandardUserDefaults == 901

Keys == {<<65>>, <<233, 65>>}

Absent == [kind |-> "absent", v |-> 0]
ObjectValue(h) == [kind |-> "object", v |-> h]
IntegerValue(n) == [kind |-> "integer", v |-> n]

\* an NSNumber the runtime boxes an integer into: never the null handle
BoxedNumber(n) == 1000 + n

\* -objectForKey: the value, nil when the key has none
Native_objectForKey(hp, st, key) ==
    IF key = Nil \/ hp[key].data \notin DOMAIN st THEN Nil
    ELSE LET e == st[hp[key].data]
         IN  CASE e.kind = "absent" -> Nil
               [] e.kind = "object" -> e.v
               [] e.kind = "integer" -> BoxedNumber(e.v)

\* -integerForKey: the integer, 0 when the key has none or no number
Native_integerForKey(hp, st, key) ==
    IF key = Nil \/ hp[key].data \notin DOMAIN st THEN 0
    ELSE LET e == st[hp[key].data]
         IN  IF e.kind = "integer" THEN e.v ELSE 0

\* -stringForKey: the value when it is a string, a number as its digits in a
\* string of the runtime's, nil otherwise
Native_stringForKey(hp, st, key) ==
    IF key = Nil \/ hp[key].data \notin DOMAIN st THEN [heap |-> hp, ans |-> Nil]
    ELSE LET e == st[hp[key].data]
         IN  IF e.kind = "integer" THEN
                 [heap |-> Append(hp, Obj("NSString", "runtime", <<48 + e.v>>)),
                  ans |-> Len(hp) + 1]
             ELSE [heap |-> hp, ans |-> Nil]

Put(st, k, e) == [x \in DOMAIN st \cup {k} |-> IF x = k THEN e ELSE st[x]]

\* -setObject:forKey: a nil value removes the key's value
Native_setObject(hp, st, value, key) ==
    Put(st, hp[key].data, IF value = Nil THEN Absent ELSE ObjectValue(value))

\* -setInteger:forKey:
Native_setInteger(hp, st, value, key) ==
    Put(st, hp[key].data, IntegerValue(value))

object_for_key(hp, st, ud, key) ==
    Forward(hp, "objectForKey:", "", ud, <<key>>, Native_objectForKey(hp, st, key))

string_for_key(hp, st, ud, key) ==
    LET r == Native_stringForKey(hp, st, key)
    IN  Forward(r.heap, "stringForKey:", "", ud, <<key>>, r.ans)

integer_for_key(hp, st, ud, key) ==
    Forward(hp, "integerForKey:", "", ud, <<key>>,
            Native_integerForKey(hp, st, key))

set_object_for_key(hp, ud, value, for_key) ==
    Forward(hp, "setObject:forKey:", "", ud, <<value, for_key>>, Nil)

set_integer_for_key(hp, ud, value, for_key) ==
    Forward(hp, "setInteger:forKey:", "", ud, <<value, for_key>>, Nil)

\* a contains_key that asks for the integer instead of the object
contains_key_by_integer(hp, st, ud, key) ==
    LET k == from_str(hp, key)
        n == Native_integerForKey(k.heap, st, k.ret.h)
    IN  Returns(k.heap,
                k.calls \o <<Msg("integerForKey:", "", ud, <<k.ret.h>>, n)>>,
                Bool(n # 0))

contains_key(hp, st, ud, key) ==
    LET k   == from_str(hp, key)
        obj == Native_objectForKey(k.heap, st, k.ret.h)
    IN  Returns(k.heap,
                k.calls \o <<Msg("objectForKey:", "", ud, <<k.ret.h>>, obj)>>,
                Bool(IF obj # Nil THEN TRUE ELSE FALSE))

\* The runtime's reference counting: what it does on a message.
Native_release(hp, h) ==
    IF h = Nil \/ h > Len(hp) THEN hp ELSE [hp EXCEPT ![h].rc = hp[h].rc - 1]

\* a Drop that releases the object
drop_releases(hp, h) ==
    Done(Native_release(hp, h), <<Msg("release", "", h, <<>>, Nil)>>, Nil)

\* The wrappers derive Clone and implement no Drop: a clone copies the
\* handle, a drop does nothing, and neither sends a message.
clone_wrapper(hp, h) == Done(hp, <<>>, h)
drop_wrapper(hp, h) == Done(hp, <<>>, Nil)

\* the objects this library allocated that are alive
LiveAllocated(hp) ==
    Cardinality({h \in 1..Len(hp) : hp[h].by = "code" /\ hp[h].rc > 0})

ObjectValues == {Nil, 101}
IntegerValues == {0, 7}

InitDefaults ==
    /\ val = <<>>
    /\ heap = <<>>
    /\ held = Nil
    /\ NoOp
    /\ store = <<>>
    /\ wrappers = 0
    /\ transform = "none"
    /\ queues = <<>>
    /\ ran = <<>>
    /\ submitted = <<>>
    /\ domains = {}
    /\ answer = <<>>

defaultsFrame == <<transform, queues, ran, submitted, domains, answer>>

\* the caller builds a key
KeyFromStr ==
    /\ Len(heap) < MaxHeap
    /\ \E k \in Keys :
          LET r == from_str(heap, k)
          IN  /\ Record("from_str", r)
              /\ val' = k
              /\ held' = r.ret.h
    /\ wrappers' = 1
    /\ UNCHANGED <<store, defaultsFrame>>

Clone ==
    /\ wrappers > 0
    /\ wrappers < MaxWrappers
    /\ Record("clone", clone_wrapper(heap, held))
    /\ wrappers' = wrappers + 1
    /\ UNCHANGED <<val, held, store, defaultsFrame>>

Drop ==
    /\ wrappers > 0
    /\ Record("drop", drop_wrapper(heap, held))
    /\ wrappers' = wrappers - 1
    /\ held' = IF wrappers = 1 THEN Nil ELSE held
    /\ UNCHANGED <<val, store, defaultsFrame>>

\* The bound methods take the key by value: the caller gives one wrapper up.
GiveUp ==
    /\ wrappers > 0
    /\ wrappers' = wrappers - 1
    /\ held' = IF wrappers = 1 THEN Nil ELSE held

SetObjectForKey ==
    /\ held # Nil
    /\ GiveUp
    /\ \E v \in ObjectValues :
          /\ Record("set_object_for_key",
                    set_object_for_key(heap, StandardUserDefaults, v, held))
          /\ store' = Native_setObject(heap, store, v, held)
    /\ UNCHANGED <<val, defaultsFrame>>

SetIntegerForKey ==
    /\ held # Nil
    /\ GiveUp
    /\ \E n \in IntegerValues :
          /\ Record("set_integer_for_key",
                    set_integer_for_key(heap, StandardUserDefaults, n, held))
          /\ store' = Native_setInteger(heap, store, n, held)
    /\ UNCHANGED <<val, defaultsFrame>>

ObjectForKey ==
    /\ GiveUp
    /\ Record("object_for_key",
              object_for_key(heap, store, StandardUserDefaults, held))
    /\ UNCHANGED <<val, store, defaultsFrame>>

IntegerForKey ==
    /\ GiveUp
    /\ Record("integer_for_key",
              integer_for_key(heap, store, StandardUserDefaults, held))
    /\ UNCHANGED <<val, store, defaultsFrame>>

\* string_for_key hands back a wrapper, which the caller now holds
StringForKey ==
    /\ wrappers > 0
    /\ Len(heap) < MaxHeap
    /\ LET r == string_for_key(heap, store, StandardUserDefaults, held)
       IN  Record("string_for_key", r) /\ held' = r.ret.h
    /\ wrappers' = 1
    /\ UNCHANGED <<val, store, defaultsFrame>>

ContainsKey ==
    /\ Len(heap) < MaxHeap
    /\ \E k \in Keys :
          /\ val' = k
          /\ Record("contains_key",
                    contains_key(heap, store, StandardUserDefaults, k))
    /\ UNCHANGED <<held, wrappers, store, defaultsFrame>>

NextDefaults ==
    \/ KeyFromStr
    \/ Clone
    \/ Drop
    \/ SetObjectForKey
    \/ SetIntegerForKey
    \/ ObjectForKey
    \/ IntegerForKey
    \/ StringForKey
    \/ ContainsKey

SpecDefaults == InitDefaults /\ [][NextDefaults]_vars

\* the value the store holds for the Rust string k
Stored(st, k) == IF ToUtf16(k) \in DOMAIN st THEN st[ToUtf16(k)] ELSE Absent

\* C8: contains_key(k) is true exactly when objectForKey: on the string built
\* from k answers a non-null handle, which is exactly when the store holds a
\* value for k (an object or an integer, 0 included; none for a key never set
\* or set to a null object), and it leaves the store unchanged.
ContainsKeyCorrect ==
    [][op' = "contains_key" =>
          /\ store' = store
          /\ outcome' = "ok"
          /\ ret'.kind = "bool"
          /\ Sels(calls') = <<"alloc", "initWithBytes:length:encoding:",
                              "objectForKey:">>
          /\ calls'[3].recv = StandardUserDefaults
          /\ calls'[3].args = <<calls'[2].ans>>
          /\ heap'[calls'[2].ans].data = ToUtf16(val')
          /\ ret'.b = (calls'[3].ans # Nil)
          /\ ret'.b = (Stored(store, val').kind # "absent")]_vars

\* contains_key said yes for a key whose value is the integer 0
ContainsKeyWitness ==
    /\ op = "contains_key"
    /\ ret.b = TRUE
    /\ Stored(store, val) = IntegerValue(0)
    /\ Len(val) = 2

\* contains_key said no for a key that was set to a null object
ContainsKeyRemovedWitness ==
    /\ op = "contains_key"
    /\ ret.b = FALSE
    /\ ToUtf16(val) \in DOMAIN store

\* C6: no operation sends retain, release or autorelease; no operation, a
\* clone or a drop of a wrapper included, changes an object's reference
\* count; the objects this library allocated stay alive, so their number
\* never decreases.
LifecycleDelegated ==
    [][/\ \A i \in 1..Len(calls') :
             calls'[i].sel \notin {"retain", "release", "autorelease"}
       /\ Len(heap') >= Len(heap)
       /\ \A h \in 1..Len(heap) : heap'[h].rc = heap[h].rc
       /\ LiveAllocated(heap') >= LiveAllocated(heap)]_vars

\* the last wrapper is dropped, a contains_key has run, and every string this
\* library allocated is still alive
LifecycleWitness ==
    /\ op = "drop"
    /\ wrappers = 0
    /\ LiveAllocated(heap) = MaxHeap
    /\ \A h \in 1..Len(heap) : heap[h].rc = 1

\* C4: every wrapper the caller holds is around a non-null handle of an
\* object the runtime produced.
WrappersHoldNativeObjects ==
    wrappers > 0 => held # Nil /\ held \in 1..Len(heap)

(***************************************************************************)
(* Operation queues: lib.rs 379-385.  Two callers, each with a queue of    *)
(* its own; the runtime runs the blocks of a queue when it chooses to.     *)
(***************************************************************************)
\* the handle of +mainQueue, and the queues the two callers made
MainQueue == 910
Callers == {"a", "b"}
QueueOf(c) == IF c = "a" THEN 911 ELSE 912
QueueHandles == {MainQueue} \cup {QueueOf(c) : c \in Callers}

\* block pointers
Blocks == {1, 2}

main_queue(hp) == Forward(hp, "mainQueue", "NSOperationQueue", Nil, <<>>, MainQueue)

\* an add_operation_with_block that sends the message again
add_operation_twice(hp, q, block) ==
    Done(hp, <<Msg("addOperationWithBlock:", "", q, <<block>>, Nil),
               Msg("addOperationWithBlock:", "", q, <<block>>, Nil)>>, Nil)

add_operation_with_block(hp, q, block) ==
    Forward(hp, "addOperationWithBlock:", "", q, <<block>>, Nil)

\* -addOperationWithBlock: puts the block at the end of the receiver's queue.
\* The runtime receives the messages of an operation in the order sent.
RECURSIVE Native_deliver(_, _)
Native_deliver(qs, cs) ==
    IF cs = <<>> THEN qs
    ELSE LET m == Head(cs)
         IN  Native_deliver(
                 IF m.sel = "addOperationWithBlock:" /\ m.recv \in DOMAIN qs
                 THEN [qs EXCEPT ![m.recv] = Append(qs[m.recv], m.args[1])]
                 ELSE qs,
                 Tail(cs))

InitQueue ==
    /\ val = <<>>
    /\ heap = <<>>
    /\ held = Nil
    /\ NoOp
    /\ store = <<>>
    /\ wrappers = 0
    /\ transform = "none"
    /\ queues = [q \in QueueHandles |-> <<>>]
    /\ ran = [q \in QueueHandles |-> <<>>]
    /\ submitted = [c \in Callers |-> <<>>]
    /\ domains = {}
    /\ answer = <<>>

queueFrame == <<val, store, wrappers, transform, domains, answer>>

GetMainQueue ==
    /\ Record("main_queue", main_queue(heap))
    /\ held' = MainQueue
    /\ UNCHANGED <<queues, ran, submitted, queueFrame>>

AddOperationWithBlock ==
    /\ \E c \in Callers, b \in Blocks :
          /\ Len(submitted[c]) < MaxQueue
          /\ LET r == add_operation_with_block(heap, QueueOf(c), b)
             IN  /\ Record("add_operation_with_block", r)
                 /\ queues' = Native_deliver(queues, r.calls)
          /\ held' = QueueOf(c)
          /\ submitted' = [submitted EXCEPT ![c] = Append(submitted[c], b)]
    /\ UNCHANGED <<ran, queueFrame>>

\* the runtime takes the first block of a queue and runs it
NativeRunBlock ==
    /\ \E q \in QueueHandles :
          /\ queues[q] # <<>>
          /\ queues' = [queues EXCEPT ![q] = Tail(queues[q])]
          /\ ran' = [ran EXCEPT ![q] = Append(ran[q], Head(queues[q]))]
    /\ UNCHANGED <<heap, held, lastOp, submitted, queueFrame>>

NextQueue == GetMainQueue \/ AddOperationWithBlock \/ NativeRunBlock

SpecQueue == InitQueue /\ [][NextQueue]_vars

\* what caller c's queue has run and still holds, in order
Handled(c) == ran[QueueOf(c)] \o queues[QueueOf(c)]

\* C7: add_operation_with_block hands the block to the receiver's queue once
\* and returns: it runs nothing, waits for nothing, and touches no other
\* queue.  So whatever the other caller and the runtime do in between, each
\* caller's queue has run or holds exactly the blocks that caller handed
\* over, each once, in the order handed over.
QueueOnlyForwards ==
    [][/\ \A c \in Callers : Handled(c)' = submitted'[c]
       /\ submitted' # submitted =>
             /\ op' = "add_operation_with_block"
             /\ Len(calls') = 1
             /\ calls'[1].sel = "addOperationWithBlock:"
             /\ calls'[1].recv = held'
             /\ ran' = ran
             /\ \A q \in QueueHandles \ {held'} : queues'[q] = queues[q]
             /\ queues'[held'] = Append(queues[held'], calls'[1].args[1])]_vars

\* both callers have handed over MaxQueue blocks, interleaved, and the runtime
\* has run some of one caller's and none of the other's
QueueWitness ==
    /\ submitted["a"] = <<1, 2>>
    /\ submitted["b"] = <<2, 1>>
    /\ ran[QueueOf("a")] = <<1>>
    /\ ran[QueueOf("b")] = <<>>
    /\ op = "add_operation_with_block"
    /\ held = QueueOf("b")

(***************************************************************************)
(* Every public operation, once, in a world of the runtime's making.       *)
(***************************************************************************)
\* The methods lib.rs binds with #[selector_export], NSError's two apart:
\* the selector each sends, and the class it is sent to when it is a class
\* method.
BoundMethods ==
    {
      [name |-> "NSString::init_with_bytes_length_encoding", sel |-> "initWithBytes:length:encoding:", cls |-> ""],
      [name |-> "NSString::length_of_bytes_using_encoding", sel |-> "lengthOfBytesUsingEncoding:", cls |-> ""],
      [name |-> "NSString::utf8_string", sel |-> "UTF8String", cls |-> ""],
      [name |-> "NSSet::set_with_array", sel |-> "setWithArray:", cls |-> "NSSet"],
      [name |-> "NSDictionary::init", sel |-> "init", cls |-> ""],
      [name |-> "NSArray::array_with_objects_count", sel |-> "arrayWithObjects:count:", cls |-> "NSArray"],
      [name |-> "NSArray::count", sel |-> "count", cls |-> ""],
      [name |-> "NSArray::object_at_index", sel |-> "objectAtIndex:", cls |-> ""],
      [name |-> "NSDecimalNumber::double_value", sel |-> "doubleValue", cls |-> ""],
      [name |-> "NSNumberFormatter::set_formatter_behavior", sel |-> "setFormatterBehavior:", cls |-> ""],
      [name |-> "NSNumberFormatter::set_number_style", sel |-> "setNumberStyle:", cls |-> ""],
      [name |-> "NSNumberFormatter::set_locale", sel |-> "setLocale:", cls |-> ""],
      [name |-> "NSNumberFormatter::string_from_number", sel |-> "stringFromNumber:", cls |-> ""],
      [name |-> "NSURL::url_with_string", sel |-> "URLWithString:", cls |-> "NSURL"],
      [name |-> "NSURL::file_url_with_path", sel |-> "fileURLWithPath:", cls |-> "NSURL"],
      [name |-> "NSURL::absolute_string", sel |-> "absoluteString", cls |-> ""],
      [name |-> "NSURL::path", sel |-> "path", cls |-> ""],
      [name |-> "NSURL::start_accessing_security_scoped_resource", sel |-> "startAccessingSecurityScopedResource", cls |-> ""],
      [name |-> "UTType::type_with_filename_extension", sel |-> "typeWithFilenameExtension:", cls |-> "UTType"],
      [name |-> "NSOperationQueue::main_queue", sel |-> "mainQueue", cls |-> "NSOperationQueue"],
      [name |-> "NSOperationQueue::add_operation_with_block", sel |-> "addOperationWithBlock:", cls |-> ""],
      [name |-> "NSUserDefaults::standard_user_defaults", sel |-> "standardUserDefaults", cls |-> "NSUserDefaults"],
      [name |-> "NSUserDefaults::object_for_key", sel |-> "objectForKey:", cls |-> ""],
      [name |-> "NSUserDefaults::string_for_key", sel |-> "stringForKey:", cls |-> ""],
      [name |-> "NSUserDefaults::integer_for_key", sel |-> "integerForKey:", cls |-> ""],
      [name |-> "NSUserDefaults::set_object_for_key", sel |-> "setObject:forKey:", cls |-> ""],
      [name |-> "NSUserDefaults::set_integer_for_key", sel |-> "setInteger:forKey:", cls |-> ""],
      [name |-> "NSData::init_with_contents_of_url", sel |-> "initWithContentsOfURL:", cls |-> ""],
      [name |-> "NSData::base64_encoded_string_with_options", sel |-> "base64EncodedStringWithOptions:", cls |-> ""],
      [name |-> "NSBundle::main_bundle", sel |-> "mainBundle", cls |-> "NSBundle"],
      [name |-> "NSBundle::app_store_receipt_url", sel |-> "appStoreReceiptURL", cls |-> ""],
      [name |-> "NSFileManager::default_manager", sel |-> "defaultManager", cls |-> "NSFileManager"],
      [name |-> "NSFileManager::temporary_directory", sel |-> "temporaryDirectory", cls |-> ""],
      [name |-> "NSFileManager::urls_for_directory_in_domains", sel |-> "URLsForDirectory:inDomains:", cls |-> ""] }

\* the classes with an alloc()
Classes ==
    {"NSString", "NSSet", "NSDictionary", "NSArray", "NSDecimalNumber",
     "NSLocale", "NSNumber", "NSNumberFormatter", "NSURL", "UTType",
     "NSOperationQueue", "NSUserDefaults", "NSError", "NSData", "NSBundle"}

\* Self(unsafe { msg_send!(objc::class!(C), alloc) })
alloc(hp, cls) ==
    LET hp1 == Native_alloc(hp, cls)
    IN  Forward(hp1, "alloc", cls, Nil, <<>>, Len(hp1))

\* GetObjcObject::objc_object: the handle, and no message
objc_object(hp, h) == Done(hp, <<>>, h)

\* -code and -localizedDescription of an error object
Native_code(hp, e) == hp[e].data[1]
Native_localizedDescription(hp, e) == hp[e].data[2]

\* a code() that converts the code to an unsigned integer and panics when it
\* does not fit
NSError_code_checked(hp, e) ==
    IF Native_code(hp, e) < 0
    THEN Abort(hp, <<Msg("code", "", e, <<>>, Native_code(hp, e))>>)
    ELSE Forward(hp, "code", "", e, <<>>, Native_code(hp, e))

NSError_code(hp, e) == Forward(hp, "code", "", e, <<>>, Native_code(hp, e))

NSError_localized_description(hp, e) ==
    Forward(hp, "localizedDescription", "", e, <<>>,
            Native_localizedDescription(hp, e))

\* -path of a URL: its path string, nil when it has none
Native_path(hp, url) == IF url = Nil THEN Nil ELSE hp[url].data[1]

NSURL_path(hp, url) == Forward(hp, "path", "", url, <<>>, Native_path(hp, url))

\* get_documents_dir: lib.rs 564-571.  `paths` is the array the runtime
\* answers URLsForDirectory:inDomains: with.
get_documents_dir(hp, fm, paths) ==
    LET asked == urls_for_directory_in_domains(hp, fm,
                     NSSearchPathDirectory_NSDocumentDirectory,
                     NSSearchPathDomainMask_NSUserDomainMask, paths)
        urls  == map(hp, asked.ret.h, "wrap")
        cs1   == asked.calls \o urls.calls
    IN  IF urls.outcome = "abort" THEN <<Abort(hp, cs1)>>
        \* urls[0] on an empty Vec: index out of bounds
        ELSE IF Len(urls.ret.s) = 0 THEN <<Abort(hp, cs1)>>
        ELSE LET path == NSURL_path(hp, urls.ret.s[1])
             IN  to_string_after(hp, path.ret.h, cs1 \o path.calls)

\* The world: two strings, three URLs (one without a path), an error and the
\* array the file manager answers with.
ErrorCodes == {-1, 0, 260}
Urls == {3, 4, 5}
TheError == 6
TheArray == 7

World(code, urls) ==
    << Obj("NSString", "runtime", <<65>>),
       Obj("NSString", "runtime", <<233, 8364>>),
       Obj("NSURL", "runtime", <<1>>),
       Obj("NSURL", "runtime", <<2>>),
       Obj("NSURL", "runtime", <<Nil>>),
       Obj("NSError", "runtime", <<code, 2>>),
       Obj("NSArray", "runtime", urls) >>

\* what the runtime may answer to a message this model knows nothing about
NativeAnswers == {Nil, 7}

\* an object of the class a bound instance method belongs to
SomeObject == 950

Stores == {<<>>, Put(<<>>, <<65>>, IntegerValue(0)),
           Put(<<>>, <<65>>, ObjectValue(101))}

InitOps ==
    /\ val = <<>>
    /\ \E code \in ErrorCodes, urls \in SeqsUpTo(Urls, MaxCount) :
          /\ heap = World(code, urls)
          /\ answer = urls
    /\ held = Nil
    /\ NoOp
    /\ store \in Stores
    /\ wrappers = 0
    /\ transform = "none"
    /\ queues = <<>>
    /\ ran = <<>>
    /\ submitted = <<>>
    /\ domains = {}

opsFrame == <<val, store, wrappers, transform, queues, ran, submitted, domains,
              answer>>

BoundMethod ==
    /\ op = "none"
    /\ \E m \in BoundMethods, ans \in NativeAnswers :
          /\ Record(m.name,
                    Forward(heap, m.sel, m.cls,
                            IF m.cls = "" THEN SomeObject ELSE Nil, <<>>, ans))
          /\ held' = IF m.cls = "" THEN SomeObject ELSE Nil
    /\ UNCHANGED opsFrame

Alloc ==
    /\ op = "none"
    /\ \E cls \in Classes :
          LET r == alloc(heap, cls)
          IN  Record("alloc", r) /\ held' = r.ret.h
    /\ UNCHANGED opsFrame

ObjcObject ==
    /\ op = "none"
    /\ \E h \in 1..Len(heap) :
          Record("objc_object", objc_object(heap, h)) /\ held' = h
    /\ UNCHANGED opsFrame

ErrorCode ==
    /\ op = "none"
    /\ Record("NSError::code", NSError_code(heap, TheError))
    /\ held' = TheError
    /\ UNCHANGED opsFrame

ErrorLocalizedDescription ==
    /\ op = "none"
    /\ Record("NSError::localized_description",
              NSError_localized_description(heap, TheError))
    /\ held' = TheError
    /\ UNCHANGED opsFrame

OpsFromStr ==
    /\ op = "none"
    /\ \E k \in Keys :
          LET r == from_str(heap, k)
          IN  Record("from_str", r) /\ val' = k /\ held' = r.ret.h
    /\ UNCHANGED <<store, wrappers, transform, queues, ran, submitted, domains,
                   answer>>

\* to_str and to_string on a string of the runtime's, or on a wrapper around
\* nil such as path() hands back for a URL without one
OpsToStr ==
    /\ op = "none"
    /\ \E h \in {Nil, 1, 2} :
          /\ held' = h
          /\ \E i \in DOMAIN to_str(heap, h) :
                Record("to_str", to_str(heap, h)[i])
    /\ UNCHANGED opsFrame

OpsToString ==
    /\ op = "none"
    /\ \E h \in {Nil, 1, 2} :
          /\ held' = h
          /\ \E i \in DOMAIN to_string(heap, h) :
                Record("to_string", to_string(heap, h)[i])
    /\ UNCHANGED opsFrame

OpsFromSlice ==
    /\ op = "none"
    /\ \E slice \in SeqsUpTo(Urls, 2) :
          LET r == from_slice(heap, slice)
          IN  Record("from_slice", r) /\ held' = r.ret.h
    /\ UNCHANGED opsFrame

OpsMap ==
    /\ op = "none"
    /\ \E f \in Transforms :
          /\ transform' = f
          /\ Record("map", map(heap, TheArray, f))
    /\ held' = TheArray
    /\ UNCHANGED <<val, store, wrappers, queues, ran, submitted, domains, answer>>

OpsContainsKey ==
    /\ op = "none"
    /\ \E k \in Keys :
          /\ val' = k
          /\ Record("contains_key",
                    contains_key(heap, store, StandardUserDefaults, k))
    /\ held' = StandardUserDefaults
    /\ UNCHANGED <<store, wrappers, transform, queues, ran, submitted, domains,
                   answer>>

GetDocumentsDir ==
    /\ op = "none"
    /\ \E i \in DOMAIN get_documents_dir(heap, FileManager, TheArray) :
          Record("get_documents_dir",
                 get_documents_dir(heap, FileManager, TheArray)[i])
    /\ held' = FileManager
    /\ UNCHANGED opsFrame

NextOps ==
    \/ BoundMethod
    \/ Alloc
    \/ ObjcObject
    \/ ErrorCode
    \/ ErrorLocalizedDescription
    \/ OpsFromStr
    \/ OpsToStr
    \/ OpsToString
    \/ OpsFromSlice
    \/ OpsMap
    \/ OpsContainsKey
    \/ GetDocumentsDir

SpecOps == InitOps /\ [][NextOps]_vars

BoundNames == {m.name : m \in BoundMethods}

\* the operations that are one message and nothing else
SingleMessage ==
    BoundNames \cup {"alloc", "from_slice", "NSError::code",
                     "NSError::localized_description"}

\* the path string of the first URL the file manager answers with
FirstPath == heap[answer[1]].data[1]

\* C3, as claimed: every public operation that reaches the runtime sends
\* exactly one native message and returns.
EveryOperationIsOneCall ==
    op \notin {"none", "objc_object"} => Len(calls) = 1 /\ outcome = "ok"

\* C3, amended: the bound methods, alloc and from_slice send exactly one
\* message and return its answer; from_str sends two (alloc, init), to_str
\* and to_string two (UTF8String, lengthOfBytesUsingEncoding:), map one and
\* one more per element, contains_key three, get_documents_dir two for an
\* empty array and otherwise five and one per element, objc_object none.
CallsPerOperation ==
    /\ op \in SingleMessage =>
          Len(calls) = 1 /\ outcome = "ok" /\ ret = Word(calls[1].ans)
    /\ op = "objc_object" => calls = <<>> /\ ret = Word(held)
    /\ op = "from_str" =>
          /\ Sels(calls) = <<"alloc", "initWithBytes:length:encoding:">>
          /\ ret = Word(calls[2].ans)
    /\ op \in {"to_str", "to_string"} =>
          Sels(calls) = <<"UTF8String", "lengthOfBytesUsingEncoding:">>
    /\ op = "map" => Len(calls) = 1 + Len(answer) /\ calls[1].sel = "count"
    /\ op = "contains_key" =>
          /\ Sels(calls) = <<"alloc", "initWithBytes:length:encoding:",
                             "objectForKey:">>
          /\ ret = Bool(calls[3].ans # Nil)
    /\ op = "get_documents_dir" =>
          /\ Len(calls) = IF answer = <<>> THEN 2 ELSE 5 + Len(answer)
          /\ calls[1].sel = "URLsForDirectory:inDomains:"
          /\ calls[2].sel = "count"
          /\ answer # <<>> =>
                /\ \A i \in 1..Len(answer) : calls[2 + i].sel = "objectAtIndex:"
                /\ SubSeq(Sels(calls), 3 + Len(answer), 5 + Len(answer))
                      = <<"path", "UTF8String", "lengthOfBytesUsingEncoding:">>

\* get_documents_dir has run on an array of MaxCount URLs and returned a path
CallsWitness ==
    /\ op = "get_documents_dir"
    /\ outcome = "ok"
    /\ Len(answer) = MaxCount
    /\ Len(calls) = 5 + MaxCount
    /\ Len(ret.s) > 1

\* the operation handed a null buffer to slice::from_raw_parts
NullBufferRead ==
    /\ op \in {"to_str", "to_string", "get_documents_dir"}
    /\ \E i \in 1..Len(calls) :
          calls[i].sel = "UTF8String" /\ calls[i].ans = Nil

\* C5, as claimed: no operation turns a native result into an outcome of its
\* own, such as an abort (where its behaviour is defined).
NoOutcomeOfItsOwn ==
    op # "none" /\ ~NullBufferRead => outcome # "abort"

\* C5, amended: NSError::code and localized_description return exactly the
\* code and the message handle the runtime reports, as every bound method
\* returns the runtime's answer; contains_key, to_str / to_string and
\* get_documents_dir do examine what the runtime answers: contains_key turns
\* a handle into a boolean, get_documents_dir aborts on an empty array, and
\* what to_str returns has passed its UTF-8 check.
ErrorsPassThrough ==
    /\ op = "NSError::code" =>
          /\ outcome = "ok"
          /\ ret = Word(heap[TheError].data[1])
          /\ Sels(calls) = <<"code">> /\ calls[1].recv = TheError
    /\ op = "NSError::localized_description" =>
          /\ outcome = "ok"
          /\ ret = Word(heap[TheError].data[2])
          /\ Sels(calls) = <<"localizedDescription">>
          /\ calls[1].recv = TheError
    /\ op \in BoundNames => outcome = "ok" /\ ret = Word(calls[1].ans)
    /\ op = "contains_key" =>
          outcome = "ok" /\ ret = Bool(calls[3].ans # Nil)
    /\ op = "get_documents_dir" /\ answer = <<>> => outcome = "abort"
    /\ op \in {"to_str", "to_string"} /\ outcome = "ok" =>
          ret.kind = "str" /\ from_utf8_is_ok(ret.s)

\* code() has returned a negative code of the runtime's
ErrorsWitness ==
    /\ op = "NSError::code"
    /\ outcome = "ok"
    /\ ret.h < 0
    /\ ret.h = calls[1].ans

\* C9: get_documents_dir asks for NSDocumentDirectory (9) in NSUserDomainMask
\* (1); for a non-empty array it returns the path of element 0 whatever
\* follows it, for an empty array it aborts, and when element 0 has a null
\* path it returns the empty path.
DocumentsDirAsClaimed ==
    op = "get_documents_dir" =>
        /\ calls[1].sel = "URLsForDirectory:inDomains:"
        /\ calls[1].args = <<9, 1>>
        /\ answer = <<>> => outcome = "abort"
        /\ answer # <<>> /\ FirstPath # Nil =>
              /\ outcome = "ok"
              /\ ret = Str(Utf8Encode(FromUtf16(heap[FirstPath].data)))
        /\ answer # <<>> /\ FirstPath = Nil =>
              /\ outcome = "ok"
              /\ ret = Str(<<>>)

\* C9 without its last case: what holds of every build
DocumentsDirDefined ==
    op = "get_documents_dir" =>
        /\ calls[1].sel = "URLsForDirectory:inDomains:"
        /\ calls[1].args = <<9, 1>>
        /\ answer = <<>> => outcome = "abort"
        /\ answer # <<>> /\ FirstPath # Nil =>
              /\ outcome = "ok"
              /\ ret = Str(Utf8Encode(FromUtf16(heap[FirstPath].data)))
        /\ answer # <<>> /\ FirstPath = Nil /\ outcome = "ok" => ret = Str(<<>>)

====
